---- MODULE Spec2Model ----
(***************************************************************************)
(* Model of llms/llms.py: the Result envelope, the LLMS dispatcher         *)
(* (construction, complete, acomplete, complete_stream) and the benchmark  *)
(* engine.                                                                 *)
(*                                                                         *)
(* A provider handle is modelled by the adapter contract llms.py relies    *)
(* on: complete(prompt, history) returns {text, meta:{tokens, cost,        *)
(* latency}} or raises, and a handle is identified by its position in      *)
(* self._providers (object identity).                                      *)
(*                                                                         *)
(* Units: raw cost is an integer number of 1e-7 dollars, a formatted cost  *)
(* ('.5f') is an integer number of 1e-5 dollars; raw latency is in         *)
(* milliseconds, a rounded latency (round(x, 2)) is in centiseconds.       *)
(***************************************************************************)
EXTENDS Integers, Sequences, FiniteSets, TLC

VARIABLES
    providers,   \* self._providers: sequence of handles [cls, model]
    ctor,        \* constructor call: its arguments, environment and outcome
    call,        \* the public method the caller is running, with its arguments
    pc,          \* position of the calling thread inside that method
    nextSubmit,  \* index of the next provider whose task is to be submitted
    task,        \* per future: "new", "pending", "running", "ok", "failed"
    outcome,     \* per future: the value _generate returned or the error it raised
    calls,       \* per provider: number of adapter invocations made by this call
    finished,    \* as_completed: futures already finished at entry, not yet yielded
    waiter,      \* as_completed: futures finished after entry, in finishing order
    yielded,     \* as_completed: futures already handed to the loop body
    results,     \* the local list `results` of complete
    raised,      \* the exception travelling to / delivered to the caller
    envelope,    \* the Result object returned to the caller (its _results)
    view,        \* what the caller read through Result.text / html / meta
    chunks,      \* complete_stream: fragments delivered to the caller so far
    listing,     \* list: the query, the model-info tables read and the list returned
    completed,   \* complete: the provider tasks that have finished, in finishing order
    responses,   \* complete, acomplete: the raw response each adapter call returned
    bench,       \* benchmark: its arguments, and how the adapters behave during it
    inner,       \* benchmark: per provider, the state of process_prompts_sequentially
    model_results,  \* benchmark: the dict model_results, in insertion order
    sorted_models,  \* benchmark: the ranking
    table        \* benchmark: headers and rows handed to PrettyTable

benchVars == <<bench, inner, model_results, sorted_models, table>>

vars == <<providers, ctor, call, pc, nextSubmit, task, outcome, calls,
          finished, waiter, yielded, results, raised, envelope, view, chunks,
          listing, completed, responses, benchVars>>

----------------------------------------------------------------------------
(* Bounds *)

MaxProviders == 2
MaxChunks == 2
MaxModels == 2
BenchProviders == 2

----------------------------------------------------------------------------
(* Values *)

None == [type |-> "None", msg |-> "", who |-> 0]

Error(type, msg, who) == [type |-> type, msg |-> msg, who |-> who]

\* Handles the constructor can append: one per backend class.
Handle(cls, api_key, model) == [cls |-> cls, api_key |-> api_key, model |-> model]

Handles ==
    { Handle("OpenAIProvider", "key", "gpt-4"),
      Handle("AnthropicProvider", "key", "claude-2"),
      Handle("AI21Provider", "key", "j2-ultra") }

Prompts == {"p1", "p2"}

\* Raw meta values an adapter may report.
RawMetas ==
    { [tokens |-> 10, cost |-> 499, latency |-> 1234],
      [tokens |-> 20, cost |-> 1250, latency |-> 995] }

RECURSIVE SeqsUpTo(_, _)
SeqsUpTo(S, n) ==
    IF n = 0 THEN {<<>>}
    ELSE LET shorter == SeqsUpTo(S, n - 1)
         IN  shorter \cup { Append(s, x) : s \in { t \in shorter : Len(t) = n - 1 }, x \in S }

Range(s) == { s[i] : i \in DOMAIN s }

Max(S) == CHOOSE x \in S : \A y \in S : y <= x

----------------------------------------------------------------------------
(* Result (llms.py 13-33) *)

\* markdown2.markdown(text): the text wrapped in a paragraph element.
Markdown(text) == <<"<p>", text, "</p>">>

\* What an accessor returns: one value, or a list of values.
Scalar(v) == [shape |-> "scalar", val |-> <<v>>]
List(vs) == [shape |-> "list", val |-> vs]

Text(rs) ==
    IF Len(rs) = 1 THEN Scalar(rs[1].text)
    ELSE List([k \in DOMAIN rs |-> rs[k].text])

HtmlCollapseEmpty(rs) ==
    IF Len(rs) <= 1 THEN Scalar(Markdown(IF Len(rs) = 1 THEN rs[1].text ELSE ""))
    ELSE List([k \in DOMAIN rs |-> Markdown(rs[k].text)])
Html(rs) ==
    IF Len(rs) = 1 THEN Scalar(Markdown(rs[1].text))
    ELSE List([k \in DOMAIN rs |-> Markdown(rs[k].text)])

Meta(rs) ==
    IF Len(rs) = 1 THEN Scalar(rs[1].meta)
    ELSE List([k \in DOMAIN rs |-> rs[k].meta])

----------------------------------------------------------------------------
(* Cost and latency formatting (llms.py 108-112, 141-145) *)

\* Nearest multiple of q to n >= 0, ties to the even multiple.
RoundHalfEven(n, q) ==
    LET lo == n \div q
        r  == n % q
    IN  IF 2 * r < q THEN lo
        ELSE IF 2 * r > q THEN lo + 1
        ELSE IF lo % 2 = 0 THEN lo ELSE lo + 1

\* format(cost, '.5f'): 1e-7 dollars to 1e-5 dollars.
FormatCost(cost) == RoundHalfEven(cost, 100)

\* round(latency, 2): milliseconds to centiseconds.
RoundLatency(latency) == RoundHalfEven(latency, 10)

\* The adapter's answer of provider i to a prompt.
ProviderText(i, prompt) == <<"answer", i, prompt>>

RawResponse(i, prompt, rawmeta) == [text |-> ProviderText(i, prompt), meta |-> rawmeta]

ProviderCallFailure(i) == Error("ProviderCallFailure", "adapter call failed", i)

\* The dict _generate builds from a raw response of provider i.
GenerateOtherProvider(i, response) ==
    [ text |-> response.text,
      meta |-> [tokens |-> response.meta.tokens,
                cost |-> FormatCost(response.meta.cost),
                latency |-> RoundLatency(response.meta.latency)],
      provider |-> 1 ]
Generate(i, response) ==
    [ text |-> response.text,
      meta |-> [tokens |-> response.meta.tokens,
                cost |-> FormatCost(response.meta.cost),
                latency |-> RoundLatency(response.meta.latency)],
      provider |-> i ]

NoResult == [text |-> <<>>, meta |-> [tokens |-> 0, cost |-> 0, latency |-> 0], provider |-> 0]

Returned(value) == [ok |-> TRUE, value |-> value, error |-> None]
Raised(error) == [ok |-> FALSE, value |-> NoResult, error |-> error]
NoOutcome == Raised(None)

----------------------------------------------------------------------------
(* State after construction *)

N == Len(providers)
Futures == 1..N
Settled == {"ok", "failed"}

Idle == [op |-> "idle", prompt |-> "", history |-> ""]

NoBench == [prompts |-> <<>>, evaluator |-> "none", show_outputs |-> FALSE,
            html |-> FALSE, profile |-> "even", faults |-> {}]
NoTable == [form |-> "none", headers |-> <<>>, rows |-> <<>>]

\* process_prompts_sequentially before its task has started.
InnerNew == [pc |-> "new", next |-> 1, item |-> <<>>, out |-> <<>>, calls |-> <<>>,
             finished |-> {}, waiter |-> <<>>, yielded |-> {}, results |-> <<>>,
             raised |-> None]
Histories == {"none", "h1"}

NoResponse == [text |-> <<>>, meta |-> [tokens |-> 0, cost |-> 0, latency |-> 0]]

NoListing == [query |-> <<>>, given |-> FALSE, tables |-> <<>>, result |-> <<>>]

InitCall ==
    /\ call = Idle
    /\ pc = "idle"
    /\ nextSubmit = 1
    /\ task = [i \in Futures |-> "new"]
    /\ outcome = [i \in Futures |-> NoOutcome]
    /\ calls = [i \in Futures |-> 0]
    /\ finished = {}
    /\ waiter = <<>>
    /\ yielded = {}
    /\ results = <<>>
    /\ raised = None
    /\ envelope = <<>>
    /\ view = <<>>
    /\ chunks = <<>>
    /\ listing = NoListing
    /\ completed = <<>>
    /\ responses = [i \in Futures |-> NoResponse]
    /\ bench = NoBench
    /\ inner = [i \in Futures |-> InnerNew]
    /\ model_results = <<>>
    /\ sorted_models = <<>>
    /\ table = NoTable

NoCtorError == [type |-> "None", msg |-> "", model |-> ""]

\* The constructor call that produced the dispatcher, where it is not explored.
NoCtor == [state |-> "constructed", error |-> NoCtorError]

Init ==
    /\ providers \in SeqsUpTo(Handles, MaxProviders)
    /\ ctor = NoCtor
    /\ InitCall

----------------------------------------------------------------------------
(* LLMS.__init__ (llms.py 37-77) *)

\* OpenAIProvider.MODEL_INFO (providers/openai.py 16-81): its keys.
OpenAIModelInfo ==
    { "gpt-3.5-turbo", "gpt-3.5-turbo-instruct", "gpt-4", "gpt-4-turbo", "gpt-4o",
      "gpt-4o-mini", "o1-preview", "o1-mini", "o1" }

\* The keys of AnthropicProvider.MODEL_INFO and AI21Provider.MODEL_INFO: the
\* tables the search is explored with, some sharing a name with an earlier one.
AnthropicModelInfos == { {"claude-2"}, {"claude-2", "gpt-4"} }
AI21ModelInfos == { {"j2-ultra"}, {"j2-ultra", "claude-2", "gpt-4"} }

\* Model names a caller asks for.
RequestNames == {"gpt-4", "claude-2", "j2-ultra", "no-such-model"}

\* The model argument: None, one name, or a list of names.
ModelArgs ==
    {[kind |-> "none", names |-> <<>>]}
    \cup { [kind |-> "str", names |-> <<n>>] : n \in RequestNames }
    \cup { [kind |-> "list", names |-> ns] : ns \in SeqsUpTo(RequestNames, MaxModels) }

ApiKeys == {"none", "key"}
EnvKeys == {"none", "envkey"}

CtorInputs ==
    [ model : ModelArgs,
      openai_api_key : ApiKeys, anthropic_api_key : ApiKeys, ai21_api_key : ApiKeys,
      env_keys : {[openai |-> "none", anthropic |-> "none", ai21 |-> "none"],
                  [openai |-> "envkey", anthropic |-> "none", ai21 |-> "envkey"],
                  [openai |-> "none", anthropic |-> "envkey", ai21 |-> "none"]},
      env_model : {"none", "claude-2"},
      anthropic_info : AnthropicModelInfos, ai21_info : AI21ModelInfos ]

\* Lines 41-48: a key that is not given is read from the environment.
KeyOrEnv(key, env) == IF key = "none" THEN env ELSE key

\* Lines 50-57: the list of requested names.
RequestedModels(in) ==
    IF in.model.kind = "none"
    THEN IF in.env_model = "none" THEN <<"gpt-3.5-turbo">> ELSE <<in.env_model>>
    ELSE in.model.names

NoHandle == Handle("None", "none", "")

\* Lines 61-77 for one name: the first class, in the order of the if chain,
\* whose key is present and whose table holds the name.
ResolveAI21First(in, single_model) ==
    LET openai_api_key == KeyOrEnv(in.openai_api_key, in.env_keys.openai)
        anthropic_api_key == KeyOrEnv(in.anthropic_api_key, in.env_keys.anthropic)
        ai21_api_key == KeyOrEnv(in.ai21_api_key, in.env_keys.ai21)
    IN  IF ai21_api_key # "none" /\ single_model \in in.ai21_info
        THEN Handle("AI21Provider", ai21_api_key, single_model)
        ELSE IF openai_api_key # "none" /\ single_model \in OpenAIModelInfo
        THEN Handle("OpenAIProvider", openai_api_key, single_model)
        ELSE IF anthropic_api_key # "none" /\ single_model \in in.anthropic_info
        THEN Handle("AnthropicProvider", anthropic_api_key, single_model)
        ELSE NoHandle
Resolve(in, single_model) ==
    LET openai_api_key == KeyOrEnv(in.openai_api_key, in.env_keys.openai)
        anthropic_api_key == KeyOrEnv(in.anthropic_api_key, in.env_keys.anthropic)
        ai21_api_key == KeyOrEnv(in.ai21_api_key, in.env_keys.ai21)
    IN  IF openai_api_key # "none" /\ single_model \in OpenAIModelInfo
        THEN Handle("OpenAIProvider", openai_api_key, single_model)
        ELSE IF anthropic_api_key # "none" /\ single_model \in in.anthropic_info
        THEN Handle("AnthropicProvider", anthropic_api_key, single_model)
        ELSE IF ai21_api_key # "none" /\ single_model \in in.ai21_info
        THEN Handle("AI21Provider", ai21_api_key, single_model)
        ELSE NoHandle

\* The requested names the loop of line 60 gets through before it raises.
ResolvedUpTo(in) ==
    LET names == RequestedModels(in)
    IN  Max({ k \in 0..Len(names) : \A m \in 1..k : Resolve(in, names[m]) # NoHandle })

InvalidCombination(single_model) ==
    [type |-> "ValueError", msg |-> "Invalid API key and model combination",
     model |-> single_model]

\* LLMS(model, openai_api_key, anthropic_api_key, ai21_api_key)
Construct ==
    /\ ctor.state = "new"
    /\ LET in == ctor.in
           names == RequestedModels(in)
           done == ResolvedUpTo(in)
       IN  IF done = Len(names)
           THEN /\ providers' = [k \in DOMAIN names |-> Resolve(in, names[k])]
                /\ ctor' = [ctor EXCEPT !.state = "constructed"]
           ELSE /\ providers' = <<>>
                /\ ctor' = [ctor EXCEPT !.state = "failed",
                                        !.error = InvalidCombination(names[done + 1])]
    /\ UNCHANGED <<call, pc, nextSubmit, task, outcome, calls, finished, waiter,
                   yielded, results, raised, envelope, view, chunks, listing,
                   completed, responses, benchVars>>

InitNew ==
    /\ providers = <<>>
    /\ \E in \in CtorInputs : ctor = [state |-> "new", error |-> NoCtorError, in |-> in]
    /\ InitCall

NextInit == Construct

SpecInit == InitNew /\ [][NextInit]_vars

----------------------------------------------------------------------------
(* complete (llms.py 103-129) *)

\* complete(prompt, history): enter the method, results = [].
Complete(prompt, history) ==
    /\ pc = "idle"
    /\ call' = [op |-> "complete", prompt |-> prompt, history |-> history]
    /\ pc' = "submit"
    /\ UNCHANGED <<providers, ctor, listing, completed, responses,
                   nextSubmit, task, outcome, calls, finished,
                   waiter, yielded, results, raised, envelope, view, chunks, benchVars>>

\* One iteration of the dict comprehension: executor.submit(_generate, provider).
Submit ==
    /\ call.op = "complete"
    /\ pc = "submit"
    /\ nextSubmit <= N
    /\ task' = [task EXCEPT ![nextSubmit] = "pending"]
    /\ nextSubmit' = nextSubmit + 1
    /\ UNCHANGED <<providers, ctor, listing, completed, responses,
                   call, pc, outcome, calls, finished,
                   waiter, yielded, results, raised, envelope, view, chunks, benchVars>>

\* A worker thread takes the work item: _generate calls provider.complete.
TaskStart(i) ==
    /\ call.op = "complete"
    /\ task[i] = "pending"
    /\ task' = [task EXCEPT ![i] = "running"]
    /\ calls' = [calls EXCEPT ![i] = @ + 1]
    /\ UNCHANGED <<providers, ctor, listing, completed, responses,
                   call, pc, nextSubmit, outcome, finished,
                   waiter, yielded, results, raised, envelope, view, chunks, benchVars>>

\* The waiter as_completed installed collects futures in finishing order.
WaiterAdd(i) == IF pc = "collect" THEN Append(waiter, i) ELSE waiter

\* provider.complete returned; _generate formats and returns its dict.
TaskReturn(i) ==
    /\ call.op = "complete"
    /\ task[i] = "running"
    /\ \E m \in RawMetas :
          /\ responses' = [responses EXCEPT ![i] = RawResponse(i, call.prompt, m)]
          /\ outcome' = [outcome EXCEPT
                           ![i] = Returned(Generate(i, RawResponse(i, call.prompt, m)))]
    /\ task' = [task EXCEPT ![i] = "ok"]
    /\ waiter' = WaiterAdd(i)
    /\ completed' = Append(completed, i)
    /\ UNCHANGED <<providers, ctor, listing, call, pc, nextSubmit, calls, finished,
                   yielded, results, raised, envelope, view, chunks, benchVars>>

\* provider.complete raised; the future stores the exception.
TaskRaise(i) ==
    /\ call.op = "complete"
    /\ task[i] = "running"
    /\ outcome' = [outcome EXCEPT ![i] = Raised(ProviderCallFailure(i))]
    /\ task' = [task EXCEPT ![i] = "failed"]
    /\ waiter' = WaiterAdd(i)
    /\ completed' = Append(completed, i)
    /\ UNCHANGED <<providers, ctor, listing, responses, call, pc, nextSubmit, calls, finished,
                   yielded, results, raised, envelope, view, chunks, benchVars>>

\* as_completed(futures) is entered: futures already finished are set aside.
AsCompleted ==
    /\ call.op = "complete"
    /\ pc = "submit"
    /\ nextSubmit > N
    /\ finished' = { i \in Futures : task[i] \in Settled }
    /\ pc' = "collect"
    /\ UNCHANGED <<providers, ctor, listing, completed, responses,
                   call, nextSubmit, task, outcome, calls,
                   waiter, yielded, results, raised, envelope, view, chunks, benchVars>>

\* The futures as_completed may yield next: any of those finished at entry,
\* then the others in finishing order.
NextYield ==
    IF finished # {} THEN finished
    ELSE IF waiter # <<>> THEN {Head(waiter)} ELSE {}

Drop(s, x) == SelectSeq(s, LAMBDA y : y # x)

\* results.append(future.result()) on a future that holds a value ...
CollectSkipFailed(f) == TRUE
CollectIsValue(f) == outcome[f].ok

AppendResult(f) == Append(results, outcome[f].value)

CollectValue ==
    /\ call.op = "complete"
    /\ pc = "collect"
    /\ \E f \in NextYield :
          /\ CollectIsValue(f)
          /\ results' = AppendResult(f)
          /\ yielded' = yielded \cup {f}
          /\ finished' = finished \ {f}
          /\ waiter' = Drop(waiter, f)
    /\ UNCHANGED <<providers, ctor, listing, completed, responses,
                   call, pc, nextSubmit, task, outcome, calls,
                   raised, envelope, view, chunks, benchVars>>

\* ... and on a future that holds an exception: it is re-raised and leaves
\* the loop; the with block starts executor.shutdown(wait=True).
ReRaise(f) == outcome[f].error

CollectRaise ==
    /\ call.op = "complete"
    /\ pc = "collect"
    /\ \E f \in NextYield :
          /\ ~CollectIsValue(f)
          /\ raised' = ReRaise(f)
          /\ yielded' = yielded \cup {f}
          /\ finished' = finished \ {f}
          /\ waiter' = Drop(waiter, f)
    /\ pc' = "shutdown"
    /\ UNCHANGED <<providers, ctor, listing, completed, responses,
                   call, nextSubmit, task, outcome, calls,
                   results, envelope, view, chunks, benchVars>>

\* executor.shutdown(wait=True) returns once every work item has run.
JoinedNoWait == TRUE
Joined == \A i \in Futures : task[i] \in Settled

\* The loop is exhausted, the with block exits, return Result(results).
CompleteReturn ==
    /\ call.op = "complete"
    /\ pc = "collect"
    /\ yielded = Futures
    /\ Joined
    /\ envelope' = results
    /\ pc' = "returned"
    /\ UNCHANGED <<providers, ctor, listing, completed, responses,
                   call, nextSubmit, task, outcome, calls,
                   finished, waiter, yielded, results, raised, view, chunks, benchVars>>

\* The with block has joined the workers; the exception reaches the caller.
CompleteFail ==
    /\ call.op = "complete"
    /\ pc = "shutdown"
    /\ Joined
    /\ pc' = "raised"
    /\ UNCHANGED <<providers, ctor, listing, completed, responses,
                   call, nextSubmit, task, outcome, calls,
                   finished, waiter, yielded, results, raised, envelope, view, chunks, benchVars>>

\* The caller reads text, html and meta of the envelope it was given.
Access ==
    /\ call.op \in {"complete", "acomplete"}
    /\ pc = "returned"
    /\ view' = [text |-> Text(envelope), html |-> Html(envelope), meta |-> Meta(envelope)]
    /\ pc' = "read"
    /\ UNCHANGED <<providers, ctor, listing, completed, responses,
                   call, nextSubmit, task, outcome, calls,
                   finished, waiter, yielded, results, raised, envelope, chunks, benchVars>>

----------------------------------------------------------------------------
(* acomplete (llms.py 131-151) *)

\* len(self._providers) > 1
MultiModelOverTwo == N > 2
MultiModel == N > 1

NotImplemented == Error("NotImplementedError", "acomplete not supported for multi-models yet.", 0)
IndexError == Error("IndexError", "list index out of range", 0)

\* The guard raises, or self._providers[0] is taken and its acomplete awaited.
Acomplete(prompt, history) ==
    /\ pc = "idle"
    /\ call' = [op |-> "acomplete", prompt |-> prompt, history |-> history]
    /\ IF MultiModel
         THEN /\ raised' = NotImplemented
              /\ pc' = "raised"
              /\ UNCHANGED calls
         ELSE IF N = 0
         THEN /\ raised' = IndexError
              /\ pc' = "raised"
              /\ UNCHANGED calls
         ELSE /\ calls' = [calls EXCEPT ![1] = @ + 1]
              /\ pc' = "await"
              /\ UNCHANGED raised
    /\ UNCHANGED <<providers, ctor, listing, completed, responses,
                   nextSubmit, task, outcome, finished,
                   waiter, yielded, results, envelope, view, chunks, benchVars>>

\* The single result acomplete wraps (lines 141-151).
AcompleteResultUnformatted(raw) ==
    [ text |-> raw.text, meta |-> raw.meta, provider |-> 1 ]
AcompleteResult(response) ==
    [ text |-> response.text,
      meta |-> [tokens |-> response.meta.tokens,
                cost |-> FormatCost(response.meta.cost),
                latency |-> RoundLatency(response.meta.latency)],
      provider |-> 1 ]

\* The awaited adapter call returns: return Result([...]).
AcompleteReturn ==
    /\ pc = "await"
    /\ \E m \in RawMetas :
          /\ responses' = [responses EXCEPT ![1] = RawResponse(1, call.prompt, m)]
          /\ envelope' = <<AcompleteResult(RawResponse(1, call.prompt, m))>>
    /\ pc' = "returned"
    /\ UNCHANGED <<providers, ctor, listing, completed,
                   call, nextSubmit, task, outcome, calls,
                   finished, waiter, yielded, results, raised, view, chunks, benchVars>>

\* The awaited adapter call raises.
AcompleteFail ==
    /\ pc = "await"
    /\ raised' = ProviderCallFailure(1)
    /\ pc' = "raised"
    /\ UNCHANGED <<providers, ctor, listing, completed, responses,
                   call, nextSubmit, task, outcome, calls,
                   finished, waiter, yielded, results, envelope, view, chunks, benchVars>>

----------------------------------------------------------------------------
(* complete_stream (llms.py 153-164): a generator function *)

SingleModelOnly == Error("ValueError", "Streaming is possible only with a single model", 0)
NoAI21Streaming == Error("ValueError", "Streaming is not yet supported with AI21 models", 0)

\* isinstance(self._providers[0], AI21Provider)
IsAI21Never(h) == FALSE
IsAI21(h) == h.cls = "AI21Provider"

\* Calling complete_stream only creates the generator; no line of it runs.
CompleteStream(prompt, history) ==
    /\ pc = "idle"
    /\ call' = [op |-> "complete_stream", prompt |-> prompt, history |-> history]
    /\ pc' = "generator"
    /\ UNCHANGED <<providers, ctor, listing, completed, responses,
                   nextSubmit, task, outcome, calls, finished,
                   waiter, yielded, results, raised, envelope, view, chunks, benchVars>>

\* The guards of the generator body.
StreamGuard ==
    IF MultiModel THEN SingleModelOnly
    ELSE IF N = 0 THEN IndexError
    ELSE IF IsAI21(providers[1]) THEN NoAI21Streaming
    ELSE None

\* The caller's first next(): the body runs up to the guards, and past them
\* into the provider's complete_stream.
StreamStart ==
    /\ pc = "generator"
    /\ IF StreamGuard # None
         THEN /\ raised' = StreamGuard
              /\ pc' = "raised"
              /\ UNCHANGED calls
         ELSE /\ calls' = [calls EXCEPT ![1] = @ + 1]
              /\ pc' = "streaming"
              /\ UNCHANGED raised
    /\ UNCHANGED <<providers, ctor, listing, completed, responses,
                   call, nextSubmit, task, outcome, finished,
                   waiter, yielded, results, envelope, view, chunks, benchVars>>

\* yield from: the provider's next fragment is handed to the caller.
StreamChunk ==
    /\ pc = "streaming"
    /\ Len(chunks) < MaxChunks
    /\ chunks' = Append(chunks, <<"chunk", Len(chunks) + 1, call.prompt>>)
    /\ UNCHANGED <<providers, ctor, listing, completed, responses,
                   call, pc, nextSubmit, task, outcome, calls,
                   finished, waiter, yielded, results, raised, envelope, view, benchVars>>

\* The provider's stream ends.
StreamEnd ==
    /\ pc = "streaming"
    /\ pc' = "exhausted"
    /\ UNCHANGED <<providers, ctor, listing, completed, responses,
                   call, nextSubmit, task, outcome, calls,
                   finished, waiter, yielded, results, raised, envelope, view, chunks, benchVars>>

\* The provider's stream raises.
StreamFail ==
    /\ pc = "streaming"
    /\ raised' = ProviderCallFailure(1)
    /\ pc' = "raised"
    /\ UNCHANGED <<providers, ctor, listing, completed, responses,
                   call, nextSubmit, task, outcome, calls,
                   finished, waiter, yielded, results, envelope, view, chunks, benchVars>>

----------------------------------------------------------------------------
(* benchmark (llms.py 167-377): arguments and adapter answers *)

\* The prompt lists and argument combinations benchmark is called with.
PromptLists == {<<"q1">>, <<"q1", "q2">>}

DefaultPrompts ==
    <<"columbus", "glass door", "quadratic", "factorial", "translate", "taipei",
      "cup and ball", "seven words", "subsequence", "non-adjacent", "rectangle",
      "extract">>

\* if not prompts: prompts = [the built-in list]
EffectivePrompts(prompts) == IF prompts = <<>> THEN DefaultPrompts ELSE prompts

\* The evaluators benchmark is given, by the reply each would send: one score
\* per pair, one score too few, one too many, or a word among the scores.
EvaluatorKinds == {"wellformed", "short", "long", "nonint"}

\* The score a truthful evaluator gives to the answer to a query.
Score(query) == IF query = "q1" THEN 0 ELSE 1

\* The meta an adapter reports for prompt number j (from 1) of provider i.
BenchMeta(profile, i, j) ==
    [ tokens  |-> 10 * j,
      cost    |-> 499 * j,
      latency |-> CASE profile = "even"       -> 1000
                    [] profile = "descending" -> 4000 - 1000 * i
                    [] profile = "zero"       -> IF i = 1 THEN 0 ELSE 1000
                    [] profile = "zerofirst"  -> IF j = 1 THEN 0 ELSE 1000
                    [] profile = "varied"     -> 1000 * (((i + j) % 3) + 1) ]

NP == Len(bench.prompts)

----------------------------------------------------------------------------
(* process_prompt and process_prompts_sequentially (llms.py 230-251) *)

\* output_data of process_prompt(model, prompt, index), index counted from 0.
ProcessPromptNoIndex(i, prompt, index) ==
    LET m == BenchMeta(bench.profile, i, index + 1)
    IN  [ text |-> ProviderText(i, prompt), tokens |-> m.tokens,
          latency |-> m.latency, cost |-> m.cost, prompt_index |-> 0 ]
ProcessPrompt(i, prompt, index) ==
    LET m == BenchMeta(bench.profile, i, index + 1)
    IN  [ text |-> ProviderText(i, prompt), tokens |-> m.tokens,
          latency |-> m.latency, cost |-> m.cost, prompt_index |-> index ]

NoOutput == [text |-> <<>>, tokens |-> 0, latency |-> 0, cost |-> 0, prompt_index |-> 0]

Items == 1..NP

\* A worker of the outer pool takes the provider's work item:
\* process_prompts_sequentially starts, results = [].
BenchTaskStart(i) ==
    /\ call.op = "benchmark"
    /\ task[i] = "pending"
    /\ task' = [task EXCEPT ![i] = "running"]
    /\ inner' = [inner EXCEPT ![i] =
                    [InnerNew EXCEPT !.pc = "submit",
                                     !.item = [j \in Items |-> "new"],
                                     !.out = [j \in Items |-> NoOutput],
                                     !.calls = [j \in Items |-> 0]]]
    /\ UNCHANGED <<providers, ctor, listing, completed, responses,
                   call, pc, nextSubmit, outcome, calls, finished,
                   waiter, yielded, results, raised, envelope, view, chunks,
                   bench, model_results, sorted_models, table>>

\* One iteration of the list comprehension: executor.submit(process_prompt, ...).
InnerSubmit(i) ==
    /\ inner[i].pc = "submit"
    /\ inner[i].next <= NP
    /\ inner' = [inner EXCEPT ![i].item[inner[i].next] = "pending",
                              ![i].next = @ + 1]
    /\ UNCHANGED <<providers, ctor, listing, completed, responses,
                   call, pc, nextSubmit, task, outcome, calls,
                   finished, waiter, yielded, results, raised, envelope, view,
                   chunks, bench, model_results, sorted_models, table>>

\* The work item the single worker (max_workers=1) may take next: the oldest
\* queued one, once the worker is free.
NextItemAnyPending(i) == { j \in Items : inner[i].item[j] = "pending" }
NextItem(i) ==
    { j \in Items : /\ inner[i].item[j] = "pending"
                    /\ \A k \in Items : k < j => inner[i].item[k] \in Settled }

\* The worker runs process_prompt: model.complete(prompt) is called.
ItemStart(i) ==
    /\ inner[i].pc \in {"submit", "collect", "shutdown"}
    /\ \E j \in NextItem(i) :
          inner' = [inner EXCEPT ![i].item[j] = "running", ![i].calls[j] = @ + 1]
    /\ UNCHANGED <<providers, ctor, listing, completed, responses,
                   call, pc, nextSubmit, task, outcome, calls,
                   finished, waiter, yielded, results, raised, envelope, view,
                   chunks, bench, model_results, sorted_models, table>>

InnerWaiterAdd(i, j) ==
    IF inner[i].pc = "collect" THEN Append(inner[i].waiter, j) ELSE inner[i].waiter

\* model.complete returned: the future holds output_data.
ItemReturn(i) ==
    /\ inner[i].pc \in {"submit", "collect", "shutdown"}
    /\ \E j \in Items :
          /\ inner[i].item[j] = "running"
          /\ <<i, j>> \notin bench.faults
          /\ inner' = [inner EXCEPT
                         ![i].item[j] = "ok",
                         ![i].out[j] = ProcessPrompt(i, bench.prompts[j], j - 1),
                         ![i].waiter = InnerWaiterAdd(i, j)]
    /\ UNCHANGED <<providers, ctor, listing, completed, responses,
                   call, pc, nextSubmit, task, outcome, calls,
                   finished, waiter, yielded, results, raised, envelope, view,
                   chunks, bench, model_results, sorted_models, table>>

\* model.complete raised: the future holds the exception.
ItemRaise(i) ==
    /\ inner[i].pc \in {"submit", "collect", "shutdown"}
    /\ \E j \in Items :
          /\ inner[i].item[j] = "running"
          /\ <<i, j>> \in bench.faults
          /\ inner' = [inner EXCEPT
                         ![i].item[j] = "failed",
                         ![i].waiter = InnerWaiterAdd(i, j)]
    /\ UNCHANGED <<providers, ctor, listing, completed, responses,
                   call, pc, nextSubmit, task, outcome, calls,
                   finished, waiter, yielded, results, raised, envelope, view,
                   chunks, bench, model_results, sorted_models, table>>

\* concurrent.futures.as_completed(futures) is entered.
InnerAsCompleted(i) ==
    /\ inner[i].pc = "submit"
    /\ inner[i].next > NP
    /\ inner' = [inner EXCEPT
                   ![i].pc = "collect",
                   ![i].finished = { j \in Items : inner[i].item[j] \in Settled }]
    /\ UNCHANGED <<providers, ctor, listing, completed, responses,
                   call, pc, nextSubmit, task, outcome, calls,
                   finished, waiter, yielded, results, raised, envelope, view,
                   chunks, bench, model_results, sorted_models, table>>

InnerNextYield(i) ==
    IF inner[i].finished # {} THEN inner[i].finished
    ELSE IF inner[i].waiter # <<>> THEN {Head(inner[i].waiter)} ELSE {}

\* results.append(future.result()) on a future holding output_data.
InnerCollectValue(i) ==
    /\ inner[i].pc = "collect"
    /\ \E j \in InnerNextYield(i) :
          /\ inner[i].item[j] = "ok"
          /\ inner' = [inner EXCEPT
                         ![i].results = Append(@, inner[i].out[j]),
                         ![i].yielded = @ \cup {j},
                         ![i].finished = @ \ {j},
                         ![i].waiter = Drop(@, j)]
    /\ UNCHANGED <<providers, ctor, listing, completed, responses,
                   call, pc, nextSubmit, task, outcome, calls,
                   finished, waiter, yielded, results, raised, envelope, view,
                   chunks, bench, model_results, sorted_models, table>>

PromptFailure(i, j) == Error("ProviderCallFailure", "adapter call failed", 10 * i + j)

\* future.result() re-raises: the loop is left and the inner with block
\* starts executor.shutdown(wait=True).
InnerCollectRaise(i) ==
    /\ inner[i].pc = "collect"
    /\ \E j \in InnerNextYield(i) :
          /\ inner[i].item[j] = "failed"
          /\ inner' = [inner EXCEPT
                         ![i].pc = "shutdown",
                         ![i].raised = PromptFailure(i, j),
                         ![i].yielded = @ \cup {j},
                         ![i].finished = @ \ {j},
                         ![i].waiter = Drop(@, j)]
    /\ UNCHANGED <<providers, ctor, listing, completed, responses,
                   call, pc, nextSubmit, task, outcome, calls,
                   finished, waiter, yielded, results, raised, envelope, view,
                   chunks, bench, model_results, sorted_models, table>>

\* The inner executor has run every work item.
InnerJoinedCancelPending(i) == \A j \in Items : inner[i].item[j] # "running"
InnerJoined(i) == \A j \in Items : inner[i].item[j] \in Settled

\* The loop is exhausted: return model, results. The outer future finishes.
InnerReturn(i) ==
    /\ inner[i].pc = "collect"
    /\ inner[i].yielded = Items
    /\ InnerJoined(i)
    /\ inner' = [inner EXCEPT ![i].pc = "done"]
    /\ task' = [task EXCEPT ![i] = "ok"]
    /\ outcome' = [outcome EXCEPT
                     ![i] = [ok |-> TRUE, model |-> i,
                             outputs |-> inner[i].results, error |-> None]]
    /\ waiter' = WaiterAdd(i)
    /\ UNCHANGED <<providers, ctor, listing, completed, responses,
                   call, pc, nextSubmit, calls, finished,
                   yielded, results, raised, envelope, view, chunks,
                   bench, model_results, sorted_models, table>>

\* The inner pool has joined: the exception leaves process_prompts_sequentially
\* and the outer future finishes with it.
InnerFail(i) ==
    /\ inner[i].pc = "shutdown"
    /\ InnerJoined(i)
    /\ inner' = [inner EXCEPT ![i].pc = "done"]
    /\ task' = [task EXCEPT ![i] = "failed"]
    /\ outcome' = [outcome EXCEPT
                     ![i] = [ok |-> FALSE, model |-> i,
                             outputs |-> <<>>, error |-> inner[i].raised]]
    /\ waiter' = WaiterAdd(i)
    /\ UNCHANGED <<providers, ctor, listing, completed, responses,
                   call, pc, nextSubmit, calls, finished,
                   yielded, results, raised, envelope, view, chunks,
                   bench, model_results, sorted_models, table>>

----------------------------------------------------------------------------
(* benchmark (llms.py 167-377): the calling thread *)

Scenario(evaluator, show_outputs, html, profile, faults) ==
    [ evaluator |-> evaluator, show_outputs |-> show_outputs, html |-> html,
      profile |-> profile, faults |-> faults ]

\* The argument combinations benchmark is called with, each with the timing
\* profile of the adapters and the (provider, prompt number) calls that fail.
Scenarios ==
    { Scenario("none", FALSE, FALSE, "even", {}),
      Scenario("none", TRUE, TRUE, "descending", {}),
      Scenario("none", FALSE, FALSE, "descending", {<<1, 1>>}),
      Scenario("none", FALSE, TRUE, "even", {<<1, 1>>, <<1, 2>>}),
      Scenario("none", TRUE, FALSE, "even", {<<1, 2>>, <<2, 1>>}),
      Scenario("none", FALSE, FALSE, "zero", {}),
      Scenario("none", TRUE, FALSE, "zerofirst", {}),
      Scenario("none", TRUE, FALSE, "varied", {}),
      Scenario("wellformed", FALSE, FALSE, "even", {}),
      Scenario("wellformed", TRUE, FALSE, "descending", {}),
      Scenario("wellformed", FALSE, TRUE, "even", {<<2, 2>>}),
      Scenario("short", FALSE, FALSE, "even", {}),
      Scenario("long", TRUE, TRUE, "even", {}),
      Scenario("nonint", FALSE, FALSE, "descending", {}) }

BenchArgs ==
    { [prompts |-> p, evaluator |-> s.evaluator, show_outputs |-> s.show_outputs,
       html |-> s.html, profile |-> s.profile, faults |-> s.faults] :
        p \in PromptLists, s \in Scenarios }

\* benchmark(prompts, evaluator, show_outputs, html): model_results = {}.
Benchmark(args) ==
    /\ pc = "idle"
    /\ call' = [op |-> "benchmark", prompt |-> "", history |-> ""]
    /\ bench' = [args EXCEPT !.prompts = EffectivePrompts(args.prompts)]
    /\ pc' = "submit"
    /\ UNCHANGED <<providers, ctor, listing, completed, responses,
                   nextSubmit, task, outcome, calls, finished,
                   waiter, yielded, results, raised, envelope, view, chunks,
                   inner, model_results, sorted_models, table>>

\* executor.submit(process_prompts_sequentially, model, prompts)
BenchSubmit ==
    /\ call.op = "benchmark"
    /\ pc = "submit"
    /\ nextSubmit <= N
    /\ task' = [task EXCEPT ![nextSubmit] = "pending"]
    /\ nextSubmit' = nextSubmit + 1
    /\ UNCHANGED <<providers, ctor, listing, completed, responses,
                   call, pc, outcome, calls, finished,
                   waiter, yielded, results, raised, envelope, view, chunks, benchVars>>

\* as_completed(futures) is entered by the calling thread.
BenchAsCompleted ==
    /\ call.op = "benchmark"
    /\ pc = "submit"
    /\ nextSubmit > N
    /\ finished' = { i \in Futures : task[i] \in Settled }
    /\ pc' = "collect"
    /\ UNCHANGED <<providers, ctor, listing, completed, responses,
                   call, nextSubmit, task, outcome, calls,
                   waiter, yielded, results, raised, envelope, view, chunks, benchVars>>

RECURSIVE SumOf(_, _)
SumOf(outputs, field) ==
    IF outputs = <<>> THEN 0
    ELSE outputs[1][field] + SumOf(Tail(outputs), field)

NoRatio == [num |-> 0, den |-> 1]

\* model_results[model] = {...} and the two running totals (lines 261-270).
ModelEntryOverwrite(model, outputs) ==
    [ model |-> model, outputs |-> outputs,
      total_latency |-> outputs[Len(outputs)].latency,
      total_cost |-> outputs[Len(outputs)].cost,
      median_latency |-> NoRatio, aggregated_speed |-> NoRatio,
      evaluation |-> <<>> ]
ModelEntry(model, outputs) ==
    [ model |-> model, outputs |-> outputs,
      total_latency |-> SumOf(outputs, "latency"),
      total_cost |-> SumOf(outputs, "cost"),
      median_latency |-> NoRatio, aggregated_speed |-> NoRatio,
      evaluation |-> <<>> ]

\* One pass of the collecting loop over a provider task that returned.
BenchCollectValue ==
    /\ call.op = "benchmark"
    /\ pc = "collect"
    /\ \E f \in NextYield :
          /\ CollectIsValue(f)
          /\ model_results' = Append(model_results,
                                     ModelEntry(outcome[f].model, outcome[f].outputs))
          /\ yielded' = yielded \cup {f}
          /\ finished' = finished \ {f}
          /\ waiter' = Drop(waiter, f)
    /\ UNCHANGED <<providers, ctor, listing, completed, responses,
                   call, pc, nextSubmit, task, outcome, calls,
                   results, raised, envelope, view, chunks,
                   bench, inner, sorted_models, table>>

\* future.result() re-raises a provider task's exception.
BenchCollectRaise ==
    /\ call.op = "benchmark"
    /\ pc = "collect"
    /\ \E f \in NextYield :
          /\ ~CollectIsValue(f)
          /\ raised' = ReRaise(f)
          /\ yielded' = yielded \cup {f}
          /\ finished' = finished \ {f}
          /\ waiter' = Drop(waiter, f)
    /\ pc' = "shutdown"
    /\ UNCHANGED <<providers, ctor, listing, completed, responses,
                   call, nextSubmit, task, outcome, calls,
                   results, envelope, view, chunks, benchVars>>

\* The outer with block has joined its workers; the exception reaches the caller.
BenchFail ==
    /\ call.op = "benchmark"
    /\ pc = "shutdown"
    /\ Joined
    /\ pc' = "raised"
    /\ UNCHANGED <<providers, ctor, listing, completed, responses,
                   call, nextSubmit, task, outcome, calls,
                   finished, waiter, yielded, results, raised, envelope, view,
                   chunks, benchVars>>

\* The collecting loop is exhausted and the outer with block exits.
BenchJoinEarly ==
    /\ call.op = "benchmark"
    /\ pc = "collect"
    /\ yielded # {}
    /\ pc' = "aggregate"
    /\ UNCHANGED <<providers, ctor, listing, completed, responses, call, nextSubmit, task,
                   outcome, calls, finished, waiter, yielded, results, raised,
                   envelope, view, chunks, benchVars>>
BenchJoin ==
    /\ call.op = "benchmark"
    /\ pc = "collect"
    /\ yielded = Futures
    /\ Joined
    /\ pc' = "aggregate"
    /\ UNCHANGED <<providers, ctor, listing, completed, responses,
                   call, nextSubmit, task, outcome, calls,
                   finished, waiter, yielded, results, raised, envelope, view,
                   chunks, benchVars>>

----------------------------------------------------------------------------
(* benchmark: aggregation, evaluation, ranking and table (llms.py 272-377) *)

RECURSIVE InsertAsc(_, _)
InsertAsc(sorted, x) ==
    IF sorted = <<>> THEN <<x>>
    ELSE IF x < sorted[1] THEN <<x>> \o sorted
    ELSE <<sorted[1]>> \o InsertAsc(Tail(sorted), x)

RECURSIVE SortAsc(_)
SortAsc(xs) == IF xs = <<>> THEN <<>> ELSE InsertAsc(SortAsc(SubSeq(xs, 1, Len(xs) - 1)), xs[Len(xs)])

\* statistics.median of a non-empty list, as a fraction.
Median(xs) ==
    LET sorted == SortAsc(xs)
        n == Len(xs)
    IN  IF n % 2 = 1 THEN [num |-> sorted[(n + 1) \div 2], den |-> 1]
        ELSE [num |-> sorted[n \div 2] + sorted[n \div 2 + 1], den |-> 2]

ZeroDivision == Error("ZeroDivisionError", "division by zero", 0)

\* Lines 273-280 for one model, total_latency being non-zero.
Aggregated(entry) ==
    [entry EXCEPT
       !.median_latency = Median([k \in DOMAIN entry.outputs |-> entry.outputs[k].latency]),
       !.aggregated_speed = [num |-> SumOf(entry.outputs, "tokens"),
                             den |-> entry.total_latency]]

\* The models the loop of line 272 gets through before a zero total latency.
AggregatedUpToAll(mr) == {Len(mr)}
AggregatedUpTo(mr) ==
    { k \in 0..Len(mr) : \A m \in 1..k : mr[m].total_latency # 0 }

Aggregate ==
    /\ call.op = "benchmark"
    /\ pc = "aggregate"
    /\ LET done == Max(AggregatedUpTo(model_results))
       IN  /\ model_results' = [k \in DOMAIN model_results |->
                                  IF k <= done THEN Aggregated(model_results[k])
                                  ELSE model_results[k]]
           /\ IF done = Len(model_results)
                THEN pc' = "evaluate" /\ UNCHANGED raised
                ELSE pc' = "raised" /\ raised' = ZeroDivision
    /\ UNCHANGED <<providers, ctor, listing, completed, responses,
                   call, nextSubmit, task, outcome, calls,
                   finished, waiter, yielded, results, envelope, view, chunks,
                   bench, inner, sorted_models, table>>

\* all_query_answer_pairs of one model (lines 284-290).
QueryAnswerPairs(entry) ==
    [k \in DOMAIN entry.outputs |->
        [query |-> bench.prompts[entry.outputs[k].prompt_index + 1],
         answer |-> entry.outputs[k].text]]

\* The prompt evaluate_answers builds (lines 219-221).
EvaluationPrompt(pairs) ==
    [k \in DOMAIN pairs |-> [label |-> k, query |-> pairs[k].query, answer |-> pairs[k].answer]]

NameError == Error("NameError", "name 'evaluator_result' is not defined", 0)

\* evaluate_answers (lines 193-226): the prompt is built, the evaluator is not
\* called (requests: what is sent to it), and line 225 reads evaluator_result,
\* a name bound nowhere.
EvaluateAnswers(evaluator, pairs) ==
    [ok |-> FALSE, scores |-> <<>>, prompt |-> EvaluationPrompt(pairs),
     requests |-> <<>>, error |-> NameError]

IndexErrorScores == Error("IndexError", "list index out of range", 0)

\* Lines 292-296 for one model: the scores are copied position by position.
Evaluated(entry) ==
    LET r == EvaluateAnswers(bench.evaluator, QueryAnswerPairs(entry))
    IN  IF ~r.ok THEN [ok |-> FALSE, entry |-> entry, error |-> r.error]
        ELSE IF Len(r.scores) < Len(entry.outputs)
        THEN [ok |-> FALSE, entry |-> entry, error |-> IndexErrorScores]
        ELSE [ok |-> TRUE,
              entry |-> [entry EXCEPT !.evaluation =
                            [k \in DOMAIN entry.outputs |-> r.scores[k]]],
              error |-> None]

\* The models the loop of line 283 gets through before an exception.
EvaluatedUpTo(mr) ==
    { k \in 0..Len(mr) : \A m \in 1..k : Evaluated(mr[m]).ok }

Evaluate ==
    /\ call.op = "benchmark"
    /\ pc = "evaluate"
    /\ IF bench.evaluator = "none"
         THEN pc' = "rank" /\ UNCHANGED <<model_results, raised>>
         ELSE LET done == Max(EvaluatedUpTo(model_results))
              IN  /\ model_results' = [k \in DOMAIN model_results |->
                                         IF k <= done THEN Evaluated(model_results[k]).entry
                                         ELSE model_results[k]]
                  /\ IF done = Len(model_results)
                       THEN pc' = "rank" /\ UNCHANGED raised
                       ELSE /\ pc' = "raised"
                            /\ raised' = Evaluated(model_results[done + 1]).error
    /\ UNCHANGED <<providers, ctor, listing, completed, responses,
                   call, nextSubmit, task, outcome, calls,
                   finished, waiter, yielded, results, envelope, view, chunks,
                   bench, inner, sorted_models, table>>

RECURSIVE SumSeq(_)
SumSeq(xs) == IF xs = <<>> THEN 0 ELSE xs[1] + SumSeq(Tail(xs))

\* The sort key of a model (lines 300-301, 307).
RankKey(entry) ==
    IF bench.evaluator # "none"
    THEN [num |-> entry.aggregated_speed.num * SumSeq(entry.evaluation),
          den |-> entry.aggregated_speed.den]
    ELSE entry.aggregated_speed

\* a < b for fractions with positive denominators.
Less(a, b) == a.num * b.den < b.num * a.den

\* sorted(..., reverse=True): descending, equal keys keep their order.
RECURSIVE InsertDesc(_, _)
InsertDesc(sorted, e) ==
    IF sorted = <<>> THEN <<e>>
    ELSE IF Less(RankKey(sorted[1]), RankKey(e)) THEN <<e>> \o sorted
    ELSE <<sorted[1]>> \o InsertDesc(Tail(sorted), e)

RECURSIVE SortedDesc(_)
SortedDesc(es) ==
    IF es = <<>> THEN <<>>
    ELSE InsertDesc(SortedDesc(SubSeq(es, 1, Len(es) - 1)), es[Len(es)])

Rank ==
    /\ call.op = "benchmark"
    /\ pc = "rank"
    /\ sorted_models' = [k \in DOMAIN model_results |-> SortedDesc(model_results)[k].model]
    /\ pc' = "table"
    /\ UNCHANGED <<providers, ctor, listing, completed, responses,
                   call, nextSubmit, task, outcome, calls,
                   finished, waiter, yielded, results, raised, envelope, view,
                   chunks, bench, inner, model_results, table>>

\* Lines 311-325.
Headers ==
    SelectSeq(<<"Model", "Output", "Tokens", "Cost ($)", "Latency (s)",
                "Speed (tokens/sec)", "Evaluation">>,
              LAMBDA h : /\ (h = "Output" => bench.show_outputs)
                         /\ (h = "Evaluation" => bench.evaluator # "none"))

Cell(kind, text, n) == [kind |-> kind, text |-> text, n |-> n]

\* list.remove(x): the list without its first element equal to x.
RemoveFirst(row, x) ==
    LET hits == { k \in DOMAIN row : row[k] = x }
    IN  IF hits = {} THEN row
        ELSE LET first == CHOOSE k \in hits : \A m \in hits : k <= m
             IN  SubSeq(row, 1, first - 1) \o SubSeq(row, first + 1, Len(row))

EntryOf(model) == model_results[CHOOSE k \in DOMAIN model_results : model_results[k].model = model]

\* The detail row of one output (lines 337-348), its latency being non-zero.
DetailRow(entry, index) ==
    LET o == entry.outputs[index]
        base == << Cell("model", <<>>, entry.model),
                   Cell("text", o.text, 0),
                   Cell("tokens", <<>>, o.tokens),
                   Cell("cost", <<>>, FormatCost(o.cost)),
                   Cell("latency", <<>>, RoundLatency(o.latency)),
                   Cell("speed", <<>>, RoundHalfEven(o.tokens * 100000, o.latency)) >>
        shown == IF bench.show_outputs THEN base ELSE RemoveFirst(base, Cell("text", o.text, 0))
    IN  IF bench.evaluator # "none"
        THEN Append(shown, Cell("evaluation", <<>>, entry.evaluation[index]))
        ELSE shown

\* The summary row of one model (lines 351-370).
SummaryRow(entry) ==
    LET total_tokens == SumOf(entry.outputs, "tokens")
        totals == << Cell("Total Tokens", <<>>, total_tokens),
                     Cell("Total Cost", <<>>, FormatCost(entry.total_cost)),
                     Cell("Median Latency", <<>>,
                          RoundHalfEven(entry.median_latency.num, 10 * entry.median_latency.den)),
                     Cell("Aggregated speed", <<>>,
                          RoundHalfEven(total_tokens * 100000, entry.total_latency)) >>
        row == IF bench.show_outputs
               THEN <<Cell("model", <<>>, entry.model), Cell("empty", <<>>, 0)>> \o totals
               ELSE <<Cell("model", <<>>, entry.model)>> \o totals
    IN  IF bench.evaluator # "none"
        THEN Append(row, Cell("Total Score", <<>>, SumSeq(entry.evaluation)))
        ELSE row

ModelRows(entry) ==
    [k \in 1..(Len(entry.outputs) + 1) |->
        IF k <= Len(entry.outputs) THEN DetailRow(entry, k) ELSE SummaryRow(entry)]

RECURSIVE Rows(_)
Rows(models) ==
    IF models = <<>> THEN <<>>
    ELSE ModelRows(EntryOf(models[1])) \o Rows(Tail(models))

\* Line 343 divides by the latency of each output.
ZeroLatencyRow ==
    \E k \in DOMAIN model_results :
        \E j \in DOMAIN model_results[k].outputs : model_results[k].outputs[j].latency = 0

BuildTable ==
    /\ call.op = "benchmark"
    /\ pc = "table"
    /\ IF ZeroLatencyRow
         THEN pc' = "raised" /\ raised' = ZeroDivision /\ UNCHANGED table
         ELSE /\ table' = [form |-> IF bench.html THEN "html" ELSE "table",
                           headers |-> Headers, rows |-> Rows(sorted_models)]
              /\ pc' = "returned"
              /\ UNCHANGED raised
    /\ UNCHANGED <<providers, ctor, listing, completed, responses,
                   call, nextSubmit, task, outcome, calls,
                   finished, waiter, yielded, results, envelope, view, chunks,
                   bench, inner, model_results, sorted_models>>

----------------------------------------------------------------------------
(* LLMS.list (llms.py 79-101) *)

\* An entry of a MODEL_INFO table: the model name, letter by letter, and its
\* prompt and completion cost in hundredths of a dollar per million tokens.
Info(name, prompt, completion) == [name |-> name, prompt |-> prompt, completion |-> completion]

\* OpenAIProvider.MODEL_INFO (providers/openai.py 16-81), in the order of the dict.
OpenAIModelCosts ==
    << Info(<<"g", "p", "t", "-", "3", ".", "5", "-", "t", "u", "r", "b", "o">>, 200, 200),
       Info(<<"g", "p", "t", "-", "3", ".", "5", "-", "t", "u", "r", "b", "o", "-",
              "i", "n", "s", "t", "r", "u", "c", "t">>, 200, 200),
       Info(<<"g", "p", "t", "-", "4">>, 3000, 6000),
       Info(<<"g", "p", "t", "-", "4", "-", "t", "u", "r", "b", "o">>, 1000, 3000),
       Info(<<"g", "p", "t", "-", "4", "o">>, 250, 1000),
       Info(<<"g", "p", "t", "-", "4", "o", "-", "m", "i", "n", "i">>, 15, 60),
       Info(<<"o", "1", "-", "p", "r", "e", "v", "i", "e", "w">>, 1500, 6000),
       Info(<<"o", "1", "-", "m", "i", "n", "i">>, 300, 1200),
       Info(<<"o", "1">>, 1500, 6000) >>

\* AI21Provider.MODEL_INFO and AnthropicProvider.MODEL_INFO: the tables list is
\* explored with, some with a mixed-case name, a name of another family or a
\* total cost another entry has too.
AI21ModelCosts ==
    { << Info(<<"j", "2", "-", "u", "l", "t", "r", "a">>, 1500, 1500) >>,
      << Info(<<"j", "2", "-", "U", "l", "t", "r", "a">>, 1500, 1500),
         Info(<<"g", "p", "t", "-", "4">>, 100, 300) >> }

AnthropicModelCosts ==
    { << Info(<<"c", "l", "a", "u", "d", "e", "-", "2">>, 800, 2400) >>,
      << Info(<<"c", "l", "a", "u", "d", "e", "-", "2">>, 800, 2400),
         Info(<<"c", "l", "a", "u", "d", "e", "-", "i", "n", "s", "t", "a", "n", "t">>, 80, 240) >> }

\* provider.__name__ of the three classes, letter by letter.
ClassName(cls) ==
    CASE cls = "OpenAIProvider" ->
           <<"O", "p", "e", "n", "A", "I", "P", "r", "o", "v", "i", "d", "e", "r">>
      [] cls = "AI21Provider" ->
           <<"A", "I", "2", "1", "P", "r", "o", "v", "i", "d", "e", "r">>
      [] cls = "AnthropicProvider" ->
           <<"A", "n", "t", "h", "r", "o", "p", "i", "c", "P", "r", "o", "v", "i", "d", "e", "r">>

\* all_providers (line 82).
AllProviders == <<"OpenAIProvider", "AI21Provider", "AnthropicProvider">>

\* The letters, upper case and lower case.
UpperCase ==
    <<"A", "B", "C", "D", "E", "F", "G", "H", "I", "J", "K", "L", "M",
      "N", "O", "P", "Q", "R", "S", "T", "U", "V", "W", "X", "Y", "Z">>
LowerCase ==
    <<"a", "b", "c", "d", "e", "f", "g", "h", "i", "j", "k", "l", "m",
      "n", "o", "p", "q", "r", "s", "t", "u", "v", "w", "x", "y", "z">>

UpperToLower ==
    [c \in Range(UpperCase) |-> LowerCase[CHOOSE n \in DOMAIN UpperCase : UpperCase[n] = c]]

\* str.lower()
Lower(s) == [k \in DOMAIN s |-> IF s[k] \in DOMAIN UpperToLower THEN UpperToLower[s[k]] ELSE s[k]]

\* sub in s
Contains(sub, s) ==
    \E k \in 0..(Len(s) - Len(sub)) : SubSeq(s, k + 1, k + Len(sub)) = sub

\* The test of lines 86-90 that makes the loop skip an entry.
SkippedCaseSensitive(given, query, model, cls) ==
    /\ given /\ query # <<>>
    /\ ~Contains(query, model)
    /\ ~Contains(query, ClassName(cls))
Skipped(given, query, model, cls) ==
    /\ given /\ query # <<>>
    /\ ~Contains(Lower(query), Lower(model))
    /\ ~Contains(Lower(query), Lower(ClassName(cls)))

\* The model_info dicts one provider class adds to model_info_list.
RECURSIVE ModelInfosOf(_, _, _, _)
ModelInfosOf(given, query, cls, infos) ==
    IF infos = <<>> THEN <<>>
    ELSE (IF Skipped(given, query, infos[1].name, cls) THEN <<>>
          ELSE << [provider |-> cls, name |-> infos[1].name,
                   cost |-> [prompt |-> infos[1].prompt, completion |-> infos[1].completion]] >>)
         \o ModelInfosOf(given, query, cls, Tail(infos))

\* model_info_list after the loops of lines 84-96.
ModelInfoList(given, query, tables) ==
    ModelInfosOf(given, query, AllProviders[1], tables[1])
      \o ModelInfosOf(given, query, AllProviders[2], tables[2])
      \o ModelInfosOf(given, query, AllProviders[3], tables[3])

\* The sort key of line 99.
TotalCost(info) == info.cost.prompt + info.cost.completion

\* sorted(model_info_list, key=...): ascending, equal keys keep their order.
RECURSIVE InsertByCost(_, _)
InsertByCost(sorted, info) ==
    IF sorted = <<>> THEN <<info>>
    ELSE IF TotalCost(info) < TotalCost(sorted[Len(sorted)])
         THEN Append(InsertByCost(SubSeq(sorted, 1, Len(sorted) - 1), info), sorted[Len(sorted)])
         ELSE Append(sorted, info)

RECURSIVE SortedList(_)
SortedList(infos) ==
    IF infos = <<>> THEN <<>>
    ELSE InsertByCost(SortedList(SubSeq(infos, 1, Len(infos) - 1)), infos[Len(infos)])

\* The queries list is called with; list() has no query.
Queries ==
    { <<>>, <<"g", "p", "t">>, <<"G", "P", "T", "-", "4">>, <<"o", "p", "e", "n", "a", "i">>,
      <<"A", "I">>, <<"c", "l", "a", "u", "d", "e">>, <<"U", "L", "T", "R", "A">>,
      <<"t", "u", "r", "b", "o">>, <<"P", "r", "o", "v", "i", "d", "e", "r">>,
      <<"o", "1", "-", "m">>, <<"l", "l", "a", "m", "a">>, <<"4", "O">> }

\* list(query): the whole method.
LLMSList(given, query, tables) ==
    /\ pc = "idle"
    /\ call' = [op |-> "list", prompt |-> "", history |-> ""]
    /\ listing' = [query |-> query, given |-> given, tables |-> tables,
                   result |-> SortedList(ModelInfoList(given, query, tables))]
    /\ pc' = "returned"
    /\ UNCHANGED <<providers, ctor, nextSubmit, task, outcome, calls, finished,
                   waiter, yielded, results, raised, envelope, view, chunks,
                   completed, responses, benchVars>>

\* The calls of list: without a query, or with one of Queries.
ListCall ==
    \E given \in BOOLEAN, query \in Queries, ai21 \in AI21ModelCosts, anthropic \in AnthropicModelCosts :
        /\ (~given => query = <<>>)
        /\ LLMSList(given, query, <<OpenAIModelCosts, ai21, anthropic>>)

----------------------------------------------------------------------------

Next ==
    \/ \E p \in Prompts, h \in Histories : Complete(p, h)
    \/ Submit
    \/ \E i \in Futures : TaskStart(i)
    \/ \E i \in Futures : TaskReturn(i)
    \/ \E i \in Futures : TaskRaise(i)
    \/ AsCompleted
    \/ CollectValue
    \/ CollectRaise
    \/ CompleteReturn
    \/ CompleteFail
    \/ Access
    \/ \E p \in Prompts, h \in Histories : Acomplete(p, h)
    \/ AcompleteReturn
    \/ AcompleteFail
    \/ \E p \in Prompts, h \in Histories : CompleteStream(p, h)
    \/ StreamStart
    \/ StreamChunk
    \/ StreamEnd
    \/ StreamFail
    \/ ListCall

Spec == Init /\ [][Next]_vars

----------------------------------------------------------------------------

\* The provider lists benchmark is explored with.
BenchHandles ==
    << Handle("OpenAIProvider", "key", "gpt-4"),
       Handle("AnthropicProvider", "key", "claude-2"),
       Handle("AI21Provider", "key", "j2-ultra"),
       Handle("OpenAIProvider", "key", "gpt-4o") >>

InitBench ==
    /\ providers \in { SubSeq(BenchHandles, 1, k) : k \in 0..BenchProviders }
    /\ ctor = NoCtor
    /\ InitCall

NextBench ==
    \/ \E args \in BenchArgs : Benchmark(args)
    \/ BenchSubmit
    \/ \E i \in Futures : BenchTaskStart(i)
    \/ \E i \in Futures : InnerSubmit(i)
    \/ \E i \in Futures : ItemStart(i)
    \/ \E i \in Futures : ItemReturn(i)
    \/ \E i \in Futures : ItemRaise(i)
    \/ \E i \in Futures : InnerAsCompleted(i)
    \/ \E i \in Futures : InnerCollectValue(i)
    \/ \E i \in Futures : InnerCollectRaise(i)
    \/ \E i \in Futures : InnerReturn(i)
    \/ \E i \in Futures : InnerFail(i)
    \/ BenchAsCompleted
    \/ BenchCollectValue
    \/ BenchCollectRaise
    \/ BenchFail
    \/ BenchJoin
    \/ Aggregate
    \/ Evaluate
    \/ Rank
    \/ BuildTable

SpecBench == InitBench /\ [][NextBench]_vars

\* Both fan-outs: complete and benchmark.
NextFanout ==
    \/ \E p \in Prompts, h \in Histories : Complete(p, h)
    \/ Submit
    \/ \E i \in Futures : TaskStart(i)
    \/ \E i \in Futures : TaskReturn(i)
    \/ \E i \in Futures : TaskRaise(i)
    \/ AsCompleted
    \/ CollectValue
    \/ CollectRaise
    \/ CompleteReturn
    \/ CompleteFail
    \/ NextBench

SpecFanout == InitBench /\ [][NextFanout]_vars

----------------------------------------------------------------------------
(* Properties *)

CompleteDone == call.op = "complete" /\ pc \in {"returned", "read"}

\* C1: a complete that returns hands back exactly one result per configured
\* provider: every handle's completion was invoked exactly once (and never
\* more than once while the call runs), every provider occurs in exactly one
\* result, and each result is the dict its own provider's task produced:
\* text and meta of that provider, with its back-reference.
C1_OneResultPerProvider ==
    /\ call.op = "complete" => \A i \in Futures : calls[i] <= 1
    /\ CompleteDone =>
         /\ Len(envelope) = N
         /\ \A i \in Futures : calls[i] = 1
         /\ \A i \in Futures : \E k \in DOMAIN envelope : envelope[k].provider = i
         /\ \A k \in DOMAIN envelope :
              /\ envelope[k].provider \in Futures
              /\ envelope[k] = outcome[envelope[k].provider].value
              /\ envelope[k].text = ProviderText(envelope[k].provider, call.prompt)

\* C1 witness: two providers, the second one's result collected first.
C1_Witness ==
    /\ CompleteDone
    /\ N = 2
    /\ envelope[1].provider = 2
    /\ envelope[2].provider = 1

\* C2: when a provider task of complete has raised, the call never returns:
\* once it has ended it has ended by raising, the exception is the one a
\* failed task raised, and no envelope (hence none of the results collected
\* from the providers that succeeded) is handed to the caller.
C2_FailurePropagates ==
    (call.op = "complete" /\ \E i \in Futures : task[i] = "failed") =>
        /\ pc \notin {"returned", "read"}
        /\ envelope = <<>> /\ view = <<>>
        /\ pc = "raised" =>
             \E i \in Futures : task[i] = "failed" /\ raised = ProviderCallFailure(i)

\* C2 witness: the call has raised although a result had been collected.
C2_Witness ==
    /\ call.op = "complete"
    /\ pc = "raised"
    /\ results # <<>>
    /\ \E i \in Futures : task[i] = "ok"

\* The failure a provider task of benchmark ended with is the one of the
\* first failed prompt its collecting loop came to.
InnerFirstFailure(i) ==
    (inner[i].pc \in {"shutdown", "done"} /\ inner[i].raised # None) =>
        \E j \in inner[i].yielded :
            /\ inner[i].item[j] = "failed"
            /\ inner[i].raised = PromptFailure(i, j)
            /\ \A k \in inner[i].yielded \ {j} : inner[i].item[k] = "ok"

FanoutRaised ==
    /\ call.op \in {"complete", "benchmark"}
    /\ raised.type = "ProviderCallFailure"

\* C3: in complete and in benchmark, when the call has handed a provider
\* failure to the caller, every provider task of the call has settled (in
\* benchmark: every prompt call of every provider too); and the failure handed
\* over is the one of the first failed task the collecting loop came to (all
\* tasks it had seen before held a value).
C3_FailureAfterSiblingsSettled ==
    /\ (FanoutRaised /\ pc = "raised") =>
          /\ \A i \in Futures : task[i] \in Settled
          /\ call.op = "benchmark" =>
                \A i \in Futures : inner[i].pc = "done" /\ InnerJoined(i)
    /\ FanoutRaised =>
          \E f \in yielded :
              /\ ~outcome[f].ok
              /\ raised = outcome[f].error
              /\ \A g \in yielded \ {f} : outcome[g].ok
    /\ call.op = "benchmark" =>
          \A i \in Futures :
              /\ InnerFirstFailure(i)
              /\ task[i] \in Settled => inner[i].pc = "done" /\ InnerJoined(i)

\* C3 witness: benchmark has raised the failure of one provider while another
\* provider, which failed too, was never collected.
C3_Witness ==
    /\ call.op = "benchmark"
    /\ pc = "raised"
    /\ raised.type = "ProviderCallFailure"
    /\ \E i \in Futures : i \notin yielded /\ task[i] = "failed"

\* C4: acomplete on a dispatcher with two or more providers has raised
\* NotImplementedError (the unsupported-operation failure) whatever prompt
\* and history it was given, and no provider's acomplete has been invoked.
C4_AcompleteMultiUnsupported ==
    (call.op = "acomplete" /\ N >= 2) =>
        /\ pc = "raised"
        /\ raised = NotImplemented
        /\ \A i \in Futures : calls[i] = 0
        /\ envelope = <<>>

\* C4 witness: acomplete was called with two providers configured.
C4_Witness == call.op = "acomplete" /\ N = 2 /\ pc = "raised"

StreamUnsupported ==
    /\ call.op = "complete_stream"
    /\ \/ N > 1
       \/ N = 1 /\ providers[1].cls = "AI21Provider"

\* C5: complete_stream with more than one provider, or with an AI21 provider
\* as the only one, delivers no chunk and never invokes a provider's
\* complete_stream; the generator it returns raises the ValueError of the
\* guard (the unsupported-operation failure) as soon as it is driven,
\* whatever the prompt and history.
C5_StreamUnsupported ==
    StreamUnsupported =>
        /\ pc \in {"generator", "raised"}
        /\ chunks = <<>>
        /\ \A i \in Futures : calls[i] = 0
        /\ pc = "generator" => raised = None
        /\ pc = "raised" =>
              raised = (IF N > 1 THEN SingleModelOnly ELSE NoAI21Streaming)

\* C5 witness: the stream of a lone AI21 provider was driven and raised.
C5_Witness == StreamUnsupported /\ N = 1 /\ pc = "raised"

\* C6: what the caller reads from an envelope: with exactly one result the
\* text, the html and the meta of that result, each as a scalar; with any
\* other number n of results (zero included) three lists of length n whose
\* k-th elements come from the k-th result; so the three accessors always
\* have the same shape.
C6_CollapseRule ==
    pc = "read" =>
        /\ view.text.shape = view.html.shape
        /\ view.html.shape = view.meta.shape
        /\ Len(envelope) = 1 =>
              /\ view.text = [shape |-> "scalar", val |-> <<envelope[1].text>>]
              /\ view.html = [shape |-> "scalar", val |-> <<Markdown(envelope[1].text)>>]
              /\ view.meta = [shape |-> "scalar", val |-> <<envelope[1].meta>>]
        /\ Len(envelope) # 1 =>
              /\ view.text.shape = "list"
              /\ Len(view.text.val) = Len(envelope)
              /\ Len(view.html.val) = Len(envelope)
              /\ Len(view.meta.val) = Len(envelope)
              /\ \A k \in DOMAIN envelope :
                    /\ view.text.val[k] = envelope[k].text
                    /\ view.html.val[k] = Markdown(envelope[k].text)
                    /\ view.meta.val[k] = envelope[k].meta

\* C6 witness: an envelope of two results has been read.
C6_Witness == pc = "read" /\ Len(envelope) = 2 /\ view.meta.shape = "list"

\* The backend classes in the order the constructor tries them, with the key
\* and the table of each.
Priority == <<"OpenAIProvider", "AnthropicProvider", "AI21Provider">>

KeyOf(in, cls) ==
    CASE cls = "OpenAIProvider"    -> KeyOrEnv(in.openai_api_key, in.env_keys.openai)
      [] cls = "AnthropicProvider" -> KeyOrEnv(in.anthropic_api_key, in.env_keys.anthropic)
      [] cls = "AI21Provider"      -> KeyOrEnv(in.ai21_api_key, in.env_keys.ai21)

TableOf(in, cls) ==
    CASE cls = "OpenAIProvider"    -> OpenAIModelInfo
      [] cls = "AnthropicProvider" -> in.anthropic_info
      [] cls = "AI21Provider"      -> in.ai21_info

Candidates(in, name) ==
    { f \in DOMAIN Priority : name \in TableOf(in, Priority[f]) /\ KeyOf(in, Priority[f]) # "none" }

Unresolvable(in) ==
    { k \in DOMAIN RequestedModels(in) : Candidates(in, RequestedModels(in)[k]) = {} }

\* C7: construction gives, for each requested name in request order, one
\* handle of the first class in the order OpenAI, Anthropic, AI21 whose table
\* holds the name and whose key is available; if some requested name has no
\* such class it fails with the ValueError (invalid configuration) that
\* carries the first such name, and no dispatcher exists.
C7_Construction ==
    LET in == ctor.in
        names == RequestedModels(in)
    IN  /\ ctor.state = "constructed" =>
              /\ Unresolvable(in) = {}
              /\ Len(providers) = Len(names)
              /\ \A k \in DOMAIN names :
                    LET f == CHOOSE f \in Candidates(in, names[k]) :
                                 \A g \in Candidates(in, names[k]) : f <= g
                    IN  providers[k] = [cls |-> Priority[f], model |-> names[k],
                                        api_key |-> KeyOf(in, Priority[f])]
        /\ ctor.state = "failed" =>
              /\ Unresolvable(in) # {}
              /\ providers = <<>>
              /\ ctor.error.type = "ValueError"
              /\ ctor.error.model =
                    names[CHOOSE k \in Unresolvable(in) : \A m \in Unresolvable(in) : k <= m]

\* C7 witness: a name held by the tables of all three classes went to
\* Anthropic, OpenAI having no key, and a later name was resolved as well.
C7_Witness ==
    /\ ctor.state = "constructed"
    /\ Len(providers) = 2
    /\ providers[1].model = "gpt-4"
    /\ providers[1].cls = "AnthropicProvider"
    /\ Candidates(ctor.in, "gpt-4") = {2, 3}

\* A provider's run holds one output per prompt, the prompt indexes 0..n-1
\* once each, and under index i the provider's answer to prompt i.
BenchRunComplete(entry) ==
    /\ Len(entry.outputs) = NP
    /\ \A idx \in 0..(NP - 1) :
          Cardinality({ k \in DOMAIN entry.outputs : entry.outputs[k].prompt_index = idx }) = 1
    /\ \A k \in DOMAIN entry.outputs :
          entry.outputs[k].text =
              ProviderText(entry.model, bench.prompts[entry.outputs[k].prompt_index + 1])

\* C8: every run benchmark has recorded in model_results is complete in this
\* sense (n >= 1 prompts given), and a benchmark that returns has recorded
\* exactly one run per configured provider.
C8_BenchmarkRunComplete ==
    call.op = "benchmark" =>
        /\ \A k \in DOMAIN model_results : BenchRunComplete(model_results[k])
        /\ pc = "returned" =>
              /\ Len(model_results) = N
              /\ \A i \in Futures : \E k \in DOMAIN model_results : model_results[k].model = i

\* C8 witness: benchmark returned for two providers and two prompts, one run
\* holding its outputs in the order prompt 1, prompt 0.
C8_Witness ==
    /\ call.op = "benchmark"
    /\ pc = "returned"
    /\ N = 2 /\ NP = 2
    /\ \E k \in DOMAIN model_results : model_results[k].outputs[1].prompt_index = 1

\* Benchmark has come to the evaluation of the answers or beyond it.
ReachedEvaluation ==
    /\ call.op = "benchmark"
    /\ bench.evaluator # "none"
    /\ model_results # <<>>
    /\ \/ pc \in {"rank", "table", "returned"}
       \/ pc = "raised" /\ raised.type \notin {"ProviderCallFailure", "ZeroDivisionError"}

\* The exceptions of the parsing of a reply: int() of a token that is no
\* integer, and a score missing for an output.
EvaluationParseErrors == {"ValueError", "IndexError"}

\* C9 as claimed: with an evaluator whose reply has too few or too many
\* integers, or a token that is no integer, benchmark fails at the evaluation
\* with the parse error of that reply.
C9_MalformedReplyRejected ==
    (ReachedEvaluation /\ bench.evaluator \in {"short", "long", "nonint"}) =>
        /\ pc = "raised"
        /\ raised.type \in EvaluationParseErrors

\* C10 as claimed: with an evaluator whose reply is well-formed, benchmark gets
\* past the evaluation and has stored for every provider, at position i, the
\* evaluator's score of the answer to prompt i.
C10_ScoresAlignedByPrompt ==
    (ReachedEvaluation /\ bench.evaluator = "wellformed") =>
        /\ pc # "raised"
        /\ \A k \in DOMAIN model_results :
              /\ Len(model_results[k].evaluation) = NP
              /\ \A i \in 1..NP : model_results[k].evaluation[i] = Score(bench.prompts[i])

\* A benchmark call has ended, by a table or by an exception.
BenchEnded == call.op = "benchmark" /\ pc \in {"returned", "raised"}

\* Every adapter call of the benchmark succeeds and reports a latency above zero.
CleanRun == bench.faults = {} /\ bench.profile \in {"even", "descending", "varied"}

\* sorted_models holds every configured provider once, keys never increasing.
RankedByKey ==
    /\ Len(sorted_models) = N
    /\ Range(sorted_models) = Futures
    /\ \A k \in 1..(Len(sorted_models) - 1) :
          ~Less(RankKey(EntryOf(sorted_models[k])), RankKey(EntryOf(sorted_models[k + 1])))

\* C11 as claimed: a benchmark whose adapter calls all succeed ends with a table
\* whose provider order is a permutation of the configured providers, sorted
\* descending by aggregated speed times the sum of scores when an evaluator
\* was given and by aggregated speed alone otherwise.
C11_RankedByKey ==
    (BenchEnded /\ CleanRun) => (pc = "returned" /\ RankedByKey)

\* The branch of C11 without an evaluator: the order is by aggregated speed,
\* whatever the order in which the provider tasks were collected.
RankedBySpeedAlone ==
    (BenchEnded /\ CleanRun /\ bench.evaluator = "none") => (pc = "returned" /\ RankedByKey)

\* The meta provider i's adapter reported for its prompts, by field.
OwnMeta(i, field) == [j \in Items |-> BenchMeta(bench.profile, i, j)[field]]

\* Sum of a sequence of numbers over its positions.
RECURSIVE SumUpTo(_, _)
SumUpTo(xs, n) == IF n = 0 THEN 0 ELSE xs[n] + SumUpTo(xs, n - 1)

\* The k-th smallest element of xs, by counting.
KthSmallest(xs, k) ==
    CHOOSE v \in Range(xs) :
        /\ Cardinality({ j \in DOMAIN xs : xs[j] < v }) < k
        /\ k <= Cardinality({ j \in DOMAIN xs : xs[j] <= v })

\* m = a / b is the median of xs.
IsMedian(m, xs) ==
    LET n == Len(xs)
    IN  IF n % 2 = 1
        THEN m.num = KthSmallest(xs, (n + 1) \div 2) * m.den
        ELSE 2 * m.num = (KthSmallest(xs, n \div 2) + KthSmallest(xs, n \div 2 + 1)) * m.den

\* The aggregation loop of benchmark has run to its end.
AggregationDone == call.op = "benchmark" /\ pc \in {"evaluate", "rank", "table", "returned"}

\* C12: every provider's totals are the sums of the latencies and costs its own
\* adapter reported; once aggregated, its median latency is the median of those
\* latencies and its aggregated speed is the sum of its tokens divided by its
\* total latency (tokens 10 and 20 at latency 1 s each: 15 tokens/s).
C12_Aggregates ==
    call.op = "benchmark" =>
        \A k \in DOMAIN model_results :
            LET e == model_results[k]
                lat == OwnMeta(e.model, "latency")
            IN  /\ e.total_latency = SumUpTo(lat, NP)
                /\ e.total_cost = SumUpTo(OwnMeta(e.model, "cost"), NP)
                /\ AggregationDone =>
                      /\ IsMedian(e.median_latency, lat)
                      /\ e.aggregated_speed.den # 0
                      /\ e.aggregated_speed.num * SumUpTo(lat, NP)
                            = SumUpTo(OwnMeta(e.model, "tokens"), NP) * e.aggregated_speed.den
                      /\ (bench.profile = "even" /\ NP = 2) =>
                            e.aggregated_speed.num * 1000 = 15 * e.aggregated_speed.den

C12_Witness ==
    /\ AggregationDone
    /\ bench.profile = "varied"
    /\ NP = 2
    /\ Len(model_results) = 2
    /\ model_results[1].total_latency # model_results[2].total_latency

\* Provider i's adapter reports latencies that add up to zero.
ZeroTotalLatency(i) == SumUpTo(OwnMeta(i, "latency"), NP) = 0

\* Some call of some provider reports a latency of zero.
ZeroLatencyCall == \E i \in Futures, j \in Items : OwnMeta(i, "latency")[j] = 0

\* C13: a benchmark in which a provider's total latency is zero ends with
\* ZeroDivisionError, the aggregation never completes over a zero total, no
\* table is returned that holds a speed over a zero latency, and without an
\* evaluator a zero latency of any single call ends the benchmark the same way.
C13_ZeroLatencyFails ==
    call.op = "benchmark" =>
        /\ AggregationDone => \A k \in DOMAIN model_results :
                                  /\ ~ZeroTotalLatency(model_results[k].model)
                                  /\ model_results[k].aggregated_speed.den # 0
        /\ pc = "returned" => ~ZeroLatencyCall
        /\ (BenchEnded /\ bench.faults = {} /\ \E i \in Futures : ZeroTotalLatency(i))
              => (pc = "raised" /\ raised = ZeroDivision)
        /\ (BenchEnded /\ bench.faults = {} /\ bench.evaluator = "none" /\ ZeroLatencyCall)
              => (pc = "raised" /\ raised = ZeroDivision)

C13_Witness ==
    /\ BenchEnded
    /\ N = 2
    /\ bench.profile = "zero"
    /\ Len(model_results) = 2
    /\ raised = ZeroDivision

\* What a benchmark call that has ended leaves with its caller: the table of
\* the return statement, or the exception. model_results is a local of the
\* call (line 228) and is part of neither.
Delivered ==
    IF pc = "returned"
    THEN [kind |-> "table", table |-> table, error |-> None, aggregates |-> <<>>]
    ELSE [kind |-> "exception", table |-> NoTable, error |-> raised, aggregates |-> <<>>]

\* The cost and latency aggregates of an entry of model_results.
AggregatesOf(entry) ==
    [ model |-> entry.model, total_latency |-> entry.total_latency,
      total_cost |-> entry.total_cost, median_latency |-> entry.median_latency,
      aggregated_speed |-> entry.aggregated_speed ]

\* C14 as claimed: a benchmark whose evaluator replies with a malformed list
\* ends with the parse error of that reply, and the caller then holds the
\* totals, median and aggregated speed computed for every provider.
C14_AggregatesSurviveEvaluationFailure ==
    (BenchEnded /\ ReachedEvaluation /\ bench.evaluator \in {"short", "nonint"}) =>
        /\ Delivered.kind = "exception"
        /\ Delivered.error.type \in EvaluationParseErrors
        /\ Delivered.aggregates =
              [k \in DOMAIN model_results |-> AggregatesOf(Aggregated(model_results[k]))]

\* The rows of the table are, for each provider in ranking order, one detail
\* row per prompt and then the provider's summary row, and every row has one
\* cell per header; the headers hold Output and Evaluation only when asked for.
FullMatrix ==
    /\ Len(table.rows) = N * (NP + 1)
    /\ \A k \in 1..Len(sorted_models) : \A r \in 1..(NP + 1) :
          LET row == table.rows[(k - 1) * (NP + 1) + r]
          IN  /\ row[1] = Cell("model", <<>>, sorted_models[k])
              /\ (r = NP + 1) <=> (\E c \in DOMAIN row : row[c].kind = "Total Tokens")
    /\ \A r \in DOMAIN table.rows : Len(table.rows[r]) = Len(table.headers)
    /\ Len(table.headers) = 5 + (IF bench.show_outputs THEN 1 ELSE 0)
                              + (IF bench.evaluator # "none" THEN 1 ELSE 0)
    /\ ("Output" \in Range(table.headers)) <=> bench.show_outputs
    /\ ("Evaluation" \in Range(table.headers)) <=> (bench.evaluator # "none")

\* C15 as claimed: a benchmark of M providers and n prompts whose adapter calls
\* all succeed builds a matrix of M * (n + 1) rows, n detail rows and a summary
\* row per provider in ranking order, each row as long as the headers, with or
\* without the Output column and with or without an evaluator.
C15_FullMatrix ==
    (BenchEnded /\ CleanRun) => (pc = "returned" /\ FullMatrix)

\* The two combinations of C15 without an evaluator.
FullMatrixWithoutEvaluator ==
    (BenchEnded /\ CleanRun /\ bench.evaluator = "none") => (pc = "returned" /\ FullMatrix)

\* Two characters are the same letter, whatever their case.
SameLetter(a, b) ==
    \/ a = b
    \/ \E n \in DOMAIN UpperCase : {a, b} = {UpperCase[n], LowerCase[n]}

\* q occurs in s when case is ignored.
OccursIgnoringCase(q, s) ==
    \E k \in 0..(Len(s) - Len(q)) : \A c \in 1..Len(q) : SameLetter(q[c], s[k + c])

\* The entries of the three tables list read, as (family, position) pairs, and
\* the dict list returns for one of them.
TableEntries == UNION { { <<p, k>> : k \in DOMAIN listing.tables[p] } : p \in DOMAIN listing.tables }

ListedAs(e) ==
    LET info == listing.tables[e[1]][e[2]]
    IN  [provider |-> AllProviders[e[1]], name |-> info.name,
         cost |-> [prompt |-> info.prompt, completion |-> info.completion]]

\* The entries a call of list has to return.
Wanted ==
    { e \in TableEntries :
        \/ ~listing.given
        \/ OccursIgnoringCase(listing.query, listing.tables[e[1]][e[2]].name)
        \/ OccursIgnoringCase(listing.query, ClassName(AllProviders[e[1]])) }

ListDone == call.op = "list" /\ pc = "returned"

\* C16: list(query) returns exactly the entries of the three families' tables
\* whose model name or family name contains the query when case is ignored
\* (every entry when there is no query), each once, in an order in which the
\* sum of prompt and completion cost never decreases.
C16_ListFilteredAndSorted ==
    ListDone =>
        LET r == listing.result
        IN  /\ Len(r) = Cardinality(Wanted)
            /\ \A e \in Wanted : \E i \in DOMAIN r : r[i] = ListedAs(e)
            /\ \A i \in DOMAIN r : \E e \in Wanted : r[i] = ListedAs(e)
            /\ \A i \in 1..(Len(r) - 1) :
                  r[i].cost.prompt + r[i].cost.completion
                     <= r[i + 1].cost.prompt + r[i + 1].cost.completion

\* A query in capitals that keeps entries by model name in two families and
\* drops the rest.
C16_Witness ==
    /\ ListDone
    /\ listing.given
    /\ listing.query = <<"G", "P", "T", "-", "4">>
    /\ Len(listing.result) = 5
    /\ listing.result[2].provider = "AI21Provider"
    /\ Cardinality(TableEntries) = 13

\* The providers of the results of the envelope, in its order.
EnvelopeOrder == [k \in DOMAIN envelope |-> envelope[k].provider]

\* C17 as claimed: the results of a complete that returned stand in the
\* envelope in the order in which the provider tasks finished, also for tasks
\* that had finished before the collecting loop began.
C17_CompletionOrder ==
    CompleteDone => EnvelopeOrder = completed

\* The prompt calls of provider i that are in flight, and those that have begun.
InFlight(i) == { j \in DOMAIN inner[i].item : inner[i].item[j] = "running" }
Begun(i) == { j \in DOMAIN inner[i].item : inner[i].item[j] \in {"running", "ok", "failed"} }

\* C18: during benchmark a provider never has two prompt calls in flight, a
\* prompt's call begins only when the call of the prompt before it has returned
\* or raised, and no prompt is called twice.
C18_OnePromptInFlight ==
    call.op = "benchmark" =>
        \A i \in Futures :
            /\ Cardinality(InFlight(i)) <= 1
            /\ \A j \in Begun(i) : \A k \in 1..(j - 1) : inner[i].item[k] \in Settled
            /\ \A j \in DOMAIN inner[i].calls : inner[i].calls[j] = (IF j \in Begun(i) THEN 1 ELSE 0)

\* Two providers each have a call in flight, one of them the call of its
\* second prompt.
C18_Witness ==
    /\ call.op = "benchmark"
    /\ N = 2
    /\ InFlight(1) = {2}
    /\ InFlight(2) = {1}

\* C19 as claimed: in every provider's entry of model_results the output at
\* position k (from 0) is the one with prompt_index k, however the provider's
\* calls were timed against the collecting loop of its task.
C19_OutputsInSubmissionOrder ==
    call.op = "benchmark" =>
        \A m \in DOMAIN model_results :
            \A k \in DOMAIN model_results[m].outputs :
                model_results[m].outputs[k].prompt_index = k - 1

\* The structures the provider tasks' results, the ranking and the table are
\* gathered in.
SharedStructures == <<model_results, sorted_models, table>>

\* Every provider task has run to its end, its inner pool included.
AllJoined ==
    \A i \in Futures : task[i] \in Settled /\ inner[i].pc = "done" /\ InnerJoined(i)

\* A step of the thread that called benchmark: no worker's state changes.
CollectingThreadStep ==
    /\ pc \in {"collect", "aggregate", "evaluate", "rank", "table"}
    /\ UNCHANGED <<task, inner, outcome>>

\* Aggregation, ranking and the table come after the join, and an entry of
\* model_results exists only once all outputs of its provider are collected.
AggregationAfterJoin ==
    call.op = "benchmark" =>
        /\ (pc \in {"aggregate", "evaluate", "rank", "table", "returned"}) => AllJoined
        /\ (sorted_models # <<>> \/ table # NoTable) => AllJoined
        /\ \A k \in DOMAIN model_results :
              LET e == model_results[k]
              IN  /\ task[e.model] = "ok" /\ inner[e.model].pc = "done"
                  /\ Len(e.outputs) = NP
                  /\ Range(e.outputs) = { inner[e.model].out[j] : j \in Items }
                  /\ (e.median_latency # NoRatio \/ e.aggregated_speed # NoRatio) => AllJoined

\* C20: in benchmark the aggregation loop, the ranking and the table start only
\* when every provider task has joined, a provider's totals are computed only
\* from all of its collected outputs, and every write to model_results, the
\* ranking or the table is a step of the calling thread.
C20_AggregationAfterJoin ==
    /\ []AggregationAfterJoin
    /\ [][SharedStructures' # SharedStructures => CollectingThreadStep]_vars

\* The ranking has been made over two providers and differs from the order in
\* which their tasks were collected.
C20_Witness ==
    /\ call.op = "benchmark"
    /\ pc = "table"
    /\ Len(model_results) = 2
    /\ sorted_models[1] # model_results[1].model

\* C21: when complete or benchmark has handed a failure to its caller, no
\* call was cancelled: in complete every configured provider's completion was
\* called once and has returned or raised; in benchmark every prompt of every
\* provider was called once and has returned or raised, the prompts after a
\* failed one of the same provider included.
C21_NoCancellation ==
    (call.op \in {"complete", "benchmark"} /\ pc = "raised") =>
        /\ \A i \in Futures : task[i] \in Settled
        /\ call.op = "complete" => \A i \in Futures : calls[i] = 1
        /\ call.op = "benchmark" =>
              \A i \in Futures :
                  /\ DOMAIN inner[i].item = Items
                  /\ \A j \in Items : /\ inner[i].calls[j] = 1
                                      /\ inner[i].item[j] \in Settled
                                      /\ inner[i].item[j] = "failed" <=> <<i, j>> \in bench.faults

\* Benchmark has raised the failure of provider 1's first prompt; its second
\* prompt was still called and returned, and so were both prompts of provider 2.
C21_Witness ==
    /\ call.op = "benchmark"
    /\ pc = "raised"
    /\ N = 2 /\ NP = 2
    /\ raised = PromptFailure(1, 1)
    /\ inner[1].item = <<"failed", "ok">>
    /\ inner[2].item = <<"ok", "ok">>
    /\ inner[1].calls[2] = 1

\* The request C22 expects for a provider: its n (prompt, answer) pairs in
\* prompt order, labelled 1..n.
LabelledPairs(model) ==
    [j \in Items |-> [label |-> j, query |-> bench.prompts[j],
                      answer |-> ProviderText(model, bench.prompts[j])]]

\* C22 as claimed: a benchmark with an evaluator whose adapter calls all succeed
\* sends the evaluator one request per provider, holding that provider's n
\* pairs labelled Query #1..#n / Answer #1..#n, and ends with the scores of
\* the evaluator's reply to it.
C22_OneEvaluatorRequestPerProvider ==
    (BenchEnded /\ CleanRun /\ bench.evaluator = "wellformed") =>
        /\ pc = "returned"
        /\ \A k \in DOMAIN model_results :
              LET e == model_results[k]
                  r == EvaluateAnswers(bench.evaluator, QueryAnswerPairs(e))
              IN  /\ Len(r.requests) = 1
                  /\ r.requests[1] = LabelledPairs(e.model)
                  /\ e.evaluation = [j \in Items |-> Score(bench.prompts[j])]

\* acomplete has returned on a dispatcher with one provider.
AcompleteDone == call.op = "acomplete" /\ N = 1 /\ pc \in {"returned", "read"}

\* C23: on a dispatcher with one provider acomplete calls the adapter exactly
\* once, and the envelope it returns holds one result, the very dict _generate
\* of complete builds from the raw response the adapter returned: its text,
\* the provider, and the meta with cost and latency formatted alike.
C23_AcompleteAsComplete ==
    /\ (call.op = "acomplete" /\ N = 1) => calls[1] = 1
    /\ AcompleteDone =>
          /\ Len(envelope) = 1
          /\ envelope[1] = Generate(1, responses[1])
          /\ envelope[1].text = responses[1].text
          /\ envelope[1].provider = 1

\* acomplete has returned a result whose raw cost sat halfway between two
\* formatted values and whose raw latency rounds up to a whole second.
C23_Witness ==
    /\ AcompleteDone
    /\ responses[1].meta = [tokens |-> 20, cost |-> 1250, latency |-> 995]
    /\ envelope[1].meta = [tokens |-> 20, cost |-> 12, latency |-> 100]

====
